---- MODULE Spec2Model ----
(***************************************************************************)
(* The peer-to-peer Channel protocol of                                    *)
(* src/assistant/social_system_framework/__init__.py: two Channel objects  *)
(* (one CLIENT / INITIATOR, one SERVER / RESPONDER) joined by a PAIR       *)
(* transport, the application tasks that call their public operations,     *)
(* and a peer environment that can put any frame on a channel's inbound    *)
(* side (the source has no loop that answers requests: the bodies of       *)
(* __inbound_network_loop and __outbound_network_loop are "...").          *)
(*                                                                         *)
(* Reading conventions.  The module is modelled by its control and data    *)
(* flow.  Member names that do not resolve are read as the member they     *)
(* denote (JOIN = SESSION_JOIN, LEAVE = SESSION_LEAVE, TOPIC_UNREGISTER =  *)
(* TOPIC_DEREGISTER; TOPIC_MESSAGE names no request the code sends),       *)
(* "state in (X)" is read as "state == X", t["topic"] as t.topic, and the  *)
(* JSON encoder is taken to encode enum members and id tuples.  A field    *)
(* declared without a default (session_id, last_message_id, peer_id) is    *)
(* Null until assigned.  Every "await" is a point where another task may   *)
(* run; the code between two awaits is one atomic step.                    *)
(***************************************************************************)
EXTENDS Integers, Sequences, FiniteSets, TLC

\* ---------------------------------------------------------------- bounds
MaxCalls == 3          \* public operations per channel that got past their state check
MaxSession == 1        \* session ids are drawn from 0..MaxSession
MaxGenerate == 3       \* calls of one IdGenerator

\* ------------------------------------------------------------- constants
Null == -1             \* Python None / a field not yet assigned
HexWidth == 16         \* digits of one half of the hex id
SessionIdSpace == 1024     \* secrets.randbelow(1024)
TopicIdSpace == 4194304    \* secrets.randbelow(4194304)

Chan == {"client", "server"}
Task == {"tc", "ts"}
Peer(c) == IF c = "client" THEN "server" ELSE "client"
Topics == {"chat"}
SelfIds == [client |-> 170, server |-> 187]
SessionIds == 0 .. MaxSession

\* _MessageKind (enum.auto() numbers the members from 1)
SESSION_JOIN == 1
SESSION_LEAVE == 2
TOPIC_REGISTER == 3
TOPIC_DEREGISTER == 4
APPLICATION == 5
ACKNOWLEDGE == 6
ERROR == 7
MessageKinds == SESSION_JOIN .. ERROR
KindName == <<"SESSION_JOIN", "SESSION_LEAVE", "TOPIC_REGISTER",
              "TOPIC_DEREGISTER", "APPLICATION", "ACKNOWLEDGE", "ERROR">>
KindByName(n) == CHOOSE k \in MessageKinds : KindName[k] = n

\* ----------------------------------------------------------------- codec
RECURSIVE HexDigits(_, _)
\* format(x, '016x'): the w low hex digits of x, most significant first
HexDigits(x, w) == IF w = 0 THEN <<>> ELSE Append(HexDigits(x \div 16, w - 1), x % 16)

RECURSIVE HexValue(_)
\* int(s, 16)
HexValue(s) == IF s = <<>> THEN 0 ELSE 16 * HexValue(SubSeq(s, 1, Len(s) - 1)) + s[Len(s)]

\* _id.to_hex
to_hex(id) == HexDigits(id.session, HexWidth) \o HexDigits(id.object, HexWidth)

\* the two halves read in the wrong order
from_hex_swapped(data) ==
  [session |-> HexValue(SubSeq(data, HexWidth + 1, Len(data))),
   object  |-> HexValue(SubSeq(data, 1, HexWidth))]

\* _id.from_hex
from_hex(data) ==
  [session |-> HexValue(SubSeq(data, 1, HexWidth)),
   object  |-> HexValue(SubSeq(data, HexWidth + 1, Len(data)))]

\* _id(session, object)
Id(s, o) == [session |-> s, object |-> o]

\* message content: a flat mapping; absent keys are <<>>, "", Null or {}
NoContent == [id |-> <<>>, topic |-> "", error |-> "", got |-> Null, expected |-> {}, ref |-> <<>>]
IdContent(s, o) == [NoContent EXCEPT !.id = to_hex(Id(s, o))]
TopicContent(t) == [NoContent EXCEPT !.topic = t]
ErrorContent(e, got, expected, ref) ==
  [NoContent EXCEPT !.error = e, !.got = got, !.expected = expected, !.ref = to_hex(ref)]

\* _Message(id, kind, content)
Message(id, kind, content) == [id |-> id, kind |-> kind, content |-> content]
NoMessage == Message(Id(Null, Null), 0, NoContent)

\* Python None as a message content: a value that is no dict
None == [none |-> TRUE]

\* A JSON document: "null", a number, or an object, which is the sequence of
\* its members <<key, value>> in the order they are written.
JsonNull == [type |-> "null", members |-> <<>>]
JsonNumber == [type |-> "number", members |-> <<>>]
JsonObject(members) == [type |-> "object", members |-> members]

RECURSIVE Members(_, _)
\* the members json.dumps writes for the keys of the dict d
Members(d, keys) ==
  IF keys = {} THEN <<>>
  ELSE LET k == CHOOSE x \in keys : TRUE IN <<<<k, d[k]>>>> \o Members(d, keys \ {k})

\* json.dumps of a message content: None or a dict
json_dumps(content) ==
  IF content = None THEN JsonNull ELSE JsonObject(Members(content, DOMAIN content))

\* the dict json.loads builds from an object: of two members with one key
\* the later one stays
json_dict(j) ==
  LET n == Len(j.members) IN
  [k \in {j.members[i][1] : i \in 1 .. n} |->
     j.members[CHOOSE i \in 1 .. n :
                 /\ j.members[i][1] = k
                 /\ \A i2 \in i + 1 .. n : j.members[i2][1] # k][2]]

\* json.loads of what json_dumps wrote
json_loads(j) == IF j.type = "null" THEN None ELSE json_dict(j)

\* The bytes of a frame: either they parse as JSON (doc is the document) or
\* they do not.
Bytes(doc) == [json |-> TRUE, doc |-> doc]
Garbage == [json |-> FALSE, doc |-> JsonNull]

\* _Message.to_bytes
to_bytes(m) ==
  Bytes(JsonObject(<< <<"id", to_hex(m.id)>>, <<"kind", KindName[m.kind]>>,
                      <<"content", json_dumps(m.content)>> >>))

\* _id.from_hex, lines 178-179: the error int(s, 16) raises for an empty
\* string or a character that is no hex digit
from_hex_error(data) ==
  IF Len(data) <= HexWidth \/ \E i \in 1 .. Len(data) : data[i] \notin 0 .. 15
  THEN "ValueError" ELSE "none"

\* _Message.from_bytes: the exception it raises on data, "none" if it returns
from_bytes_error(data) ==
  IF ~data.json THEN "JSONDecodeError"
  ELSE IF data.doc.type # "object" THEN "TypeError"
  ELSE LET d == json_dict(data.doc) IN
       IF "id" \notin DOMAIN d THEN "KeyError"
       ELSE IF from_hex_error(d["id"]) # "none" THEN from_hex_error(d["id"])
       ELSE IF "kind" \notin DOMAIN d THEN "KeyError"
       ELSE IF \A k \in MessageKinds : KindName[k] # d["kind"] THEN "KeyError"
       ELSE IF "content" \notin DOMAIN d THEN "KeyError"
       ELSE "none"

\* _Message.from_bytes: the message it returns
from_bytes(data) ==
  LET d == json_dict(data.doc) IN
  Message(from_hex(d["id"]), KindByName(d["kind"]), json_loads(d["content"]))

\* ----------------------------------------------------------------- state
VARIABLES
  role,             \* Channel.role
  state,            \* Channel.state
  socket,           \* Channel.__socket: "none", "open" or "closed"
  session_id,       \* Channel.__session_id
  last_message_id,  \* Channel.__last_message_id
  self_id,          \* Channel.__self_id
  peer_id,          \* Channel.__peer_id
  topics,           \* Channel.__topics: sequence of _topic records
  outboxes,         \* Channel.__outboxes, the mapping publish() keeps
  queues,           \* number of asyncio.Queue objects a channel has made
  wire,             \* frames in flight towards each channel, in order
  task,             \* the operation each application task is running
  accepted,         \* per channel: the frames received without raising while
                    \* ONLINE in this session, each with the counter it met
  world,            \* which ends of the transport are Channel objects
  calls,            \* calls per channel that sent a frame or changed the state
  codec,            \* a message or a frame put through _Message's codec
  gen               \* an IdGenerator of src/assistant/ipc/utils.py

vars == <<role, state, socket, session_id, last_message_id, self_id, peer_id,
          topics, outboxes, queues, wire, task, accepted, world, calls, codec, gen>>

chan == <<role, state, socket, session_id, last_message_id, self_id, peer_id,
          topics, outboxes, queues>>

\* what a BadPeerError carries: the text of the peer's error, the kind named
\* in the text, and the _Message object (OutOfOrderError, UnknownSessionError)
Carried(text, kind, msg) == [text |-> text, kind |-> kind, message |-> msg]
Nothing == Carried("", 0, NoMessage)

\* what a receive met and left: the channel's state, session id and counter
\* when the frame arrived, and the counter when the receive returned or raised
NoRx == [state |-> "none", session |-> Null, before |-> Null, after |-> Null]

\* an application task: the operation it runs (op), where it is suspended
\* (pc), its arguments, and the record of what the operation did so far
Idle == [op |-> "none", pc |-> "idle", topic |-> "", kind |-> 0, resp |-> NoMessage,
         exc |-> "none", result |-> "none", carried |-> Nothing, ret |-> Null,
         sent |-> <<>>, got |-> <<>>, entry |-> "none", rx |-> NoRx]

\* "both": a CLIENT Channel and a SERVER Channel are connected to each other
\* and nothing else writes to the transport.  "client", "server": that one
\* Channel faces a peer that is not this code and may send any frame.
\* "tasks": as "client", with two application tasks calling the one Channel.
\* "closing": as "tasks", for an application whose task tc sets the channel up
\* and registers topics while its task ts only tears the channel down; the
\* peer acknowledges and also repeats data frames.
Worlds == {"both", "client", "server", "tasks", "closing"}
\* two application tasks share the CLIENT Channel
TwoTasks == world \in {"tasks", "closing"}
\* c is a Channel object
IsChannel(c) == world \in {"both", c} \/ (TwoTasks /\ c = "client")
\* c is a Channel object and its peer is not
FacesPeer(c) == world = c \/ (TwoTasks /\ c = "client")
\* the channel a task calls
TaskChan ==
  [t \in Task |-> IF t = "tc" \/ TwoTasks THEN "client" ELSE "server"]
\* the operations the application's task t calls
MayCall(t, op) ==
  world = "closing" => IF t = "ts" THEN op = "teardown" ELSE op \in {"setup", "register"}

\* the codec at rest, and the values it is tried on
NoCodec == [input |-> "none", phase |-> "idle", msg |-> NoMessage, data |-> Garbage,
            out |-> NoMessage, exc |-> "none"]

\* A set of used ids: the ids 0 .. below-1 and the ids in others.
UsedIds(below, others) == [below |-> below, others |-> others]
\* an IdGenerator on which no call runs (pc = "idle"); returned lists the
\* ids its calls have returned, in order
NoGen == [pc |-> "idle", used_session_ids |-> UsedIds(0, {}),
          used_topic_ids |-> UsedIds(0, {}), returned |-> <<>>, calls |-> 0]

\* two new Channel objects, not yet connected
Constructed ==
  /\ role = [c \in Chan |-> IF c = "server" THEN "SERVER" ELSE "CLIENT"]
  /\ state = [c \in Chan |-> "OFFLINE"]
  /\ socket = [c \in Chan |-> "none"]
  /\ session_id = [c \in Chan |-> Null]
  /\ last_message_id = [c \in Chan |-> Null]
  /\ self_id = SelfIds
  /\ peer_id = [c \in Chan |-> Null]
  /\ topics = [c \in Chan |-> <<>>]
  /\ outboxes = [c \in Chan |-> <<>>]
  /\ queues = [c \in Chan |-> 0]
  /\ wire = [c \in Chan |-> <<>>]
  /\ task = [t \in Task |-> Idle]
  /\ accepted = [c \in Chan |-> <<>>]
  /\ calls = [c \in Chan |-> 0]

Init ==
  /\ Constructed
  /\ world \in Worlds
  /\ codec = NoCodec
  /\ gen = NoGen

\* --------------------------------------------------------------- helpers
\* the task record of a call that starts now
Start(op, topic) == [Idle EXCEPT !.op = op, !.topic = topic]

\* the operation ends: it returns (res = "ok") or raises res
Done(tr, res, car) == [tr EXCEPT !.pc = "idle", !.result = res, !.carried = car]

\* Channel.__send_message_to_peer, lines 283-287: why a send cannot start
SendExc(st, sess, last, sock) ==
  IF st = "OFFLINE" THEN "WrongStateError"
  ELSE IF last = Null \/ sess = Null THEN "TypeError"
  ELSE IF sock # "open" THEN "ZMQError"
  ELSE "none"

\* Channel.__send_message_to_peer, lines 289-297: the message that goes out
\* when the counter is last before the call
Outgoing(sess, last, kind, content) == Message(Id(sess, last + 1), kind, content)

\* Channel.__recv_message_from_peer, lines 309-314: the error the checks raise
\* the ordering check left out
RecvErrorNoOrder(st, sess, last, m) ==
  IF st = "ONLINE" /\ m.id.session # sess THEN "UnknownSessionError" ELSE "none"

RecvError(st, sess, last, m) ==
  IF st = "ONLINE"
  THEN IF m.id.session # sess THEN "UnknownSessionError"
       ELSE IF m.id.object # last + 1 THEN "OutOfOrderError"
       ELSE "none"
  ELSE "none"

\* Channel.__send_message_to_peer_and_recv_ack, lines 324-326
ValidResponseKinds(kind) ==
  IF kind \in {SESSION_JOIN, SESSION_LEAVE, TOPIC_REGISTER, TOPIC_DEREGISTER}
  THEN {ACKNOWLEDGE} ELSE {}

\* the entry of self.__outboxes for topic
OutboxOf(ob, topic) == (CHOOSE i \in 1 .. Len(ob) : ob[i].topic = topic)

\* Channel.topics
TopicNames(c) == {topics[c][i].topic : i \in 1 .. Len(topics[c])}

Waiting(t) == task[t].pc \in {"setup_recv", "ack_recv"}

\* ------------------------------------------------- steps as state updates
\* The fields of one channel and of the task running on it, as a step finds
\* them; a step is a function from this record to the record it leaves.
\* out: messages the step sends; pop: the step takes the next inbound frame.
Cur(c, t) ==
  [state |-> state[c], socket |-> socket[c], session |-> session_id[c],
   last |-> last_message_id[c], self |-> self_id[c], peer |-> peer_id[c],
   topics |-> topics[c], outboxes |-> outboxes[c], queues |-> queues[c],
   accepted |-> accepted[c], task |-> task[t],
   out |-> <<>>, pop |-> FALSE, call |-> FALSE]

Apply(c, t, n) ==
  /\ state' = [state EXCEPT ![c] = n.state]
  /\ socket' = [socket EXCEPT ![c] = n.socket]
  /\ session_id' = [session_id EXCEPT ![c] = n.session]
  /\ last_message_id' = [last_message_id EXCEPT ![c] = n.last]
  /\ peer_id' = [peer_id EXCEPT ![c] = n.peer]
  /\ topics' = [topics EXCEPT ![c] = n.topics]
  /\ outboxes' = [outboxes EXCEPT ![c] = n.outboxes]
  /\ queues' = [queues EXCEPT ![c] = n.queues]
  /\ accepted' = [accepted EXCEPT ![c] = n.accepted]
  /\ wire' = [x \in Chan |->
               IF x = c THEN (IF n.pop THEN Tail(wire[c]) ELSE wire[c])
               ELSE IF IsChannel(x) THEN wire[x] \o [i \in 1 .. Len(n.out) |-> to_bytes(n.out[i])]
               ELSE wire[x]]
  /\ task' = [task EXCEPT ![t] =
               [n.task EXCEPT !.sent = @ \o n.out,
                              !.got = IF n.pop THEN Append(@, from_bytes(Head(wire[c]))) ELSE @]]
  /\ calls' = [calls EXCEPT ![c] = IF n.call /\ (n.out # <<>> \/ n.state # state[c]) THEN @ + 1 ELSE @]
  /\ UNCHANGED <<role, self_id, world, codec, gen>>

\* raise e out of the running operation
Raise(n, e, car) == [n EXCEPT !.task = Done(n.task, e, car)]
\* return from the running operation
Return(n, v) == [n EXCEPT !.task = [Done(n.task, "ok", Nothing) EXCEPT !.ret = v]]
Raised(n) == n.task.result # "none"
\* suspend at the next await
At(n, pc) == IF Raised(n) THEN n ELSE [n EXCEPT !.task.pc = pc]

\* Channel.__send_message_to_peer
Send(n, kind, content) ==
  LET e == SendExc(n.state, n.session, n.last, n.socket) IN
  IF e # "none" THEN Raise(n, e, Nothing)
  ELSE [n EXCEPT !.last = @ + 1,
                 !.out = Append(@, Outgoing(n.session, n.last, kind, content))]

\* the receiver takes over the counter of the frame before it checks it
ReceiveAdopting(n, m) ==
  [n EXCEPT !.pop = TRUE, !.task.resp = m, !.last = m.id.object,
            !.task.exc = RecvError(n.state, n.session, n.last, m)]

\* Channel.__recv_message_from_peer: the frame m is taken from the socket and
\* checked; the task holds m and the error the checks raised
Receive(n, m) ==
  [n EXCEPT !.pop = TRUE, !.task.resp = m,
            !.task.exc = RecvError(n.state, n.session, n.last, m)]

\* Receive, with the record of what it met (n) and what it left
Received(n, m) ==
  LET r == Receive(n, m) IN
  [r EXCEPT !.task.rx = [state |-> n.state, session |-> n.session,
                         before |-> n.last, after |-> r.last],
            !.accepted = IF n.state = "ONLINE" /\ r.task.exc = "none"
                         THEN Append(@, [object |-> m.id.object, last |-> n.last])
                         ELSE @]

\* Channel.register, lines 457-461: the topic and its two new queues
Allocate(n, topic) ==
  [n EXCEPT !.topics = Append(@, [topic |-> topic, inbox |-> n.queues + 1,
                                  outbox |-> n.queues + 2]),
            !.queues = @ + 2]

\* the CLIENT keeps session id 0 instead of adopting the SERVER's
AcknowledgedKeepingSession(n, m) ==
  IF n.task.op = "setup"
  THEN Return([n EXCEPT !.peer = from_hex(m.content.id).object,
                        !.last = m.id.object, !.state = "ONLINE"], Null)
  ELSE IF n.task.op = "teardown"
  THEN Return([n EXCEPT !.session = Null, !.last = Null, !.peer = Null,
                        !.socket = "closed", !.state = "OFFLINE"], Null)
  ELSE Return(n, Null)

\* teardown() empties the topic registry when it closes the session
AcknowledgedForgetting(n, m) ==
  IF n.task.op = "setup"
  THEN IF m.content.id = <<>> THEN Raise(n, "KeyError", Nothing)
       ELSE Return([n EXCEPT !.peer = from_hex(m.content.id).object,
                             !.session = m.id.session,
                             !.last = m.id.object,
                             !.state = "ONLINE"], Null)
  ELSE IF n.task.op = "teardown"
  THEN Return([n EXCEPT !.session = Null, !.last = Null, !.peer = Null,
                        !.socket = "closed", !.state = "OFFLINE",
                        !.topics = <<>>], Null)
  ELSE IF n.task.op = "register" THEN Return(Allocate(n, n.task.topic), Null)
  ELSE IF n.task.op = "publish"
  THEN LET a == Allocate(n, n.task.topic) IN
       Return(a, a.outboxes[OutboxOf(a.outboxes, n.task.topic)].queue)
  ELSE Return(n, Null)

\* what the operation does once its request has been acknowledged by m
Acknowledged(n, m) ==
  CASE n.task.op = "setup" ->
         \* Channel.setup, lines 429-433
         IF m.content.id = <<>> THEN Raise(n, "KeyError", Nothing)
         ELSE Return([n EXCEPT !.peer = from_hex(m.content.id).object,
                               !.session = m.id.session,
                               !.last = m.id.object,
                               !.state = "ONLINE"], Null)
    [] n.task.op = "teardown" ->
         \* Channel.teardown, lines 446-450
         Return([n EXCEPT !.session = Null, !.last = Null, !.peer = Null,
                          !.socket = "closed", !.state = "OFFLINE"], Null)
    [] n.task.op = "register" -> Return(Allocate(n, n.task.topic), Null)
    [] n.task.op = "publish" ->
         \* Channel.publish, line 474, after register() has returned
         LET a == Allocate(n, n.task.topic) IN
         Return(a, a.outboxes[OutboxOf(a.outboxes, n.task.topic)].queue)
    [] OTHER -> Return(n, Null)

\* Channel.__send_message_to_peer_and_recv_ack, lines 356-370
KindCheck(n, m) ==
  IF m.kind \in ValidResponseKinds(n.task.kind) THEN Acknowledged(n, m)
  ELSE IF m.kind = ERROR
  THEN IF m.content.error = "" THEN Raise(n, "KeyError", Nothing)
       ELSE Raise(n, "BadPeerError", Carried(m.content.error, 0, NoMessage))
  ELSE At(Send(n, ERROR,
               ErrorContent("Peer sent an invalid response message", m.kind,
                            ValidResponseKinds(n.task.kind), m.id)),
          "ack_err_sent")

\* Channel.__send_message_to_peer_and_recv_ack, lines 327-329: the request is
\* sent and the task waits for the reply
Request(n, kind, content) ==
  At(Send([n EXCEPT !.task.kind = kind], kind, content), "ack_recv")

\* --------------------------------------------------------------- actions
\* a call of a public operation by an idle task
Call(t, op, topic) ==
  [Cur(TaskChan[t], t) EXCEPT !.task = [Start(op, topic) EXCEPT !.entry = state[TaskChan[t]]],
                              !.call = TRUE]
CanCall(t, op) ==
  /\ IsChannel(TaskChan[t])
  /\ MayCall(t, op)
  /\ task[t].pc = "idle"
  /\ calls[TaskChan[t]] < MaxCalls

\* Channel.setup, lines 382-392 and 420-428, up to the first await
SetupStart(n, r) ==
  IF n.state # "OFFLINE" THEN Raise(n, "AssertionError", Nothing)
  ELSE LET n1 == [n EXCEPT !.state = "SETUP", !.socket = "open", !.accepted = <<>>] IN
       IF r = "SERVER" THEN At(n1, "setup_recv")
       ELSE IF r = "CLIENT"
       THEN Request([n1 EXCEPT !.session = 0, !.last = 0], SESSION_JOIN, IdContent(0, n1.self))
       ELSE Raise(n1, "UnsupportedRoleError", Nothing)

SetupCall(t) ==
  /\ CanCall(t, "setup")
  /\ Apply(TaskChan[t], t, SetupStart(Call(t, "setup", ""), role[TaskChan[t]]))

\* the SERVER takes the peer's id from the wrong half of the JOIN's content id
SetupFirstFramePeerSession(n, m, s) ==
  IF m.kind # SESSION_JOIN
  THEN At(Send([n EXCEPT !.session = m.id.session, !.last = m.id.object], ERROR,
               ErrorContent("Unknown Peer has sent us a message", m.kind,
                            {SESSION_JOIN}, m.id)),
          "setup_err_sent")
  ELSE LET n1 == [n EXCEPT !.session = s, !.last = 0] IN
       IF m.content.id = <<>> THEN Raise(n1, "KeyError", Nothing)
       ELSE At(Send([n1 EXCEPT !.peer = from_hex(m.content.id).session],
                    ACKNOWLEDGE, IdContent(s, n1.self)),
               "setup_ack_sent")

\* Channel.setup, lines 396-419: the SERVER has received its first frame m
\* and mints the session id s
SetupFirstFrame(n, m, s) ==
  IF m.kind # SESSION_JOIN
  THEN At(Send([n EXCEPT !.session = m.id.session, !.last = m.id.object], ERROR,
               ErrorContent("Unknown Peer has sent us a message", m.kind,
                            {SESSION_JOIN}, m.id)),
          "setup_err_sent")
  ELSE LET n1 == [n EXCEPT !.session = s, !.last = 0] IN
       IF m.content.id = <<>> THEN Raise(n1, "KeyError", Nothing)
       ELSE At(Send([n1 EXCEPT !.peer = from_hex(m.content.id).object],
                    ACKNOWLEDGE, IdContent(s, n1.self)),
               "setup_ack_sent")

SetupServerRecv(t) ==
  LET c == TaskChan[t] IN
  /\ task[t].pc = "setup_recv"
  /\ wire[c] # <<>>
  /\ LET m == from_bytes(Head(wire[c]))
         n == Received(Cur(c, t), m) IN
     \E s \in SessionIds :
       Apply(c, t, IF n.task.exc # "none" THEN Raise(n, n.task.exc, Carried("", 0, m))
                   ELSE SetupFirstFrame(n, m, s))

\* the failed handshake puts the channel back to OFFLINE
SetupServerErrSentOffline(t) ==
  /\ task[t].pc = "setup_err_sent"
  /\ Apply(TaskChan[t], t,
           Raise([Cur(TaskChan[t], t) EXCEPT !.session = Null, !.last = Null,
                                              !.state = "OFFLINE"],
                 "BadPeerError", Carried("Unknown Peer has sent us a message", 0, NoMessage)))

\* the ids taken from the offending frame are not cleared
SetupServerErrSentKeepingIds(t) ==
  /\ task[t].pc = "setup_err_sent"
  /\ Apply(TaskChan[t], t,
           Raise(Cur(TaskChan[t], t), "BadPeerError",
                 Carried("Unknown Peer has sent us a message", 0, NoMessage)))

\* Channel.setup, lines 410-412, after the ERROR frame has been sent
SetupServerErrSent(t) ==
  /\ task[t].pc = "setup_err_sent"
  /\ Apply(TaskChan[t], t,
           Raise([Cur(TaskChan[t], t) EXCEPT !.session = Null, !.last = Null],
                 "BadPeerError", Carried("Unknown Peer has sent us a message", 0, NoMessage)))

\* Channel.setup, lines 396 and 425: the task that waits in setup() for the
\* peer's frame is cancelled; CancelledError leaves setup() at the await
SetupCancelled(t) ==
  /\ task[t].op = "setup"
  /\ Waiting(t)
  /\ Apply(TaskChan[t], t, Raise(Cur(TaskChan[t], t), "CancelledError", Nothing))

\* Channel.setup, line 433, after the ACKNOWLEDGE has been sent
SetupServerAckSent(t) ==
  /\ task[t].pc = "setup_ack_sent"
  /\ Apply(TaskChan[t], t, Return([Cur(TaskChan[t], t) EXCEPT !.state = "ONLINE"], Null))

\* Channel.__send_message_to_peer_and_recv_ack, lines 330-354: the handler of
\* the error x that the receive of m raised
Violation(n, m, x) ==
  IF x = "OutOfOrderError"
  THEN At(Send(n, ERROR, ErrorContent("Peer sent an out of order message",
                                       m.id.object, {n.last + 1}, m.id)),
          "ack_viol_sent")
  ELSE At(Send(n, ERROR, ErrorContent("Peer sent a message for an unknown session",
                                       m.id.session, {n.session}, m.id)),
          "ack_viol_sent")

\* Channel.__send_message_to_peer_and_recv_ack, lines 329-370: the reply m
\* arrives; the receive raises x or returns m
Reply(n, m, x) ==
  IF x # "none" THEN Violation(n, m, x) ELSE KindCheck(n, m)

AckRecv(t) ==
  LET c == TaskChan[t] IN
  /\ task[t].pc = "ack_recv"
  /\ state[c] = "OFFLINE" \/ wire[c] # <<>>
  /\ IF state[c] = "OFFLINE"
     THEN Apply(c, t, Raise(Cur(c, t), "WrongStateError", Nothing))
     ELSE LET m == from_bytes(Head(wire[c]))
              n == Received(Cur(c, t), m) IN
          Apply(c, t, Reply(n, m, n.task.exc))

\* lines 356-370, reached after the handler's ERROR frame has been sent
AckViolSent(t) ==
  /\ task[t].pc = "ack_viol_sent"
  /\ Apply(TaskChan[t], t, KindCheck(Cur(TaskChan[t], t), task[t].resp))

\* line 369, after the ERROR frame for an invalid reply kind has been sent
AckErrSent(t) ==
  /\ task[t].pc = "ack_err_sent"
  /\ Apply(TaskChan[t], t,
           Raise(Cur(TaskChan[t], t), "BadPeerError", Carried("", task[t].resp.kind, NoMessage)))

\* the CLIENT does not wait for the reply to its SESSION_LEAVE either
TeardownStartNoReply(n, r) ==
  IF n.state # "ONLINE" THEN Raise(n, "AssertionError", Nothing)
  ELSE At(Send([n EXCEPT !.state = "TEARDOWN"], SESSION_LEAVE, IdContent(n.session, n.self)),
          "teardown_sent")

\* teardown goes OFFLINE at once, without passing through TEARDOWN
TeardownStartSkipping(n, r) ==
  IF n.state # "ONLINE" THEN Raise(n, "AssertionError", Nothing)
  ELSE LET n1 == [n EXCEPT !.state = "OFFLINE"] IN
       IF r = "SERVER" THEN At([n1 EXCEPT !.out = <<>>], "teardown_sent")
       ELSE Return([n1 EXCEPT !.socket = "closed", !.session = Null, !.last = Null,
                              !.peer = Null], Null)

\* Channel.teardown, lines 435-445, up to the first await
TeardownStart(n, r) ==
  IF n.state # "ONLINE" THEN Raise(n, "AssertionError", Nothing)
  ELSE LET n1 == [n EXCEPT !.state = "TEARDOWN"] IN
       IF r = "SERVER"
       THEN At(Send(n1, SESSION_LEAVE, IdContent(n1.session, n1.self)), "teardown_sent")
       ELSE IF r = "CLIENT"
       THEN Request(n1, SESSION_LEAVE, IdContent(n1.session, n1.self))
       ELSE Return([n1 EXCEPT !.socket = "closed", !.state = "OFFLINE"], Null)

TeardownCall(t) ==
  /\ CanCall(t, "teardown")
  /\ Apply(TaskChan[t], t, TeardownStart(Call(t, "teardown", ""), role[TaskChan[t]]))

\* the peer id survives the teardown
TeardownServerSentKeepingPeer(t) ==
  /\ task[t].pc = "teardown_sent"
  /\ Apply(TaskChan[t], t,
           Return([Cur(TaskChan[t], t) EXCEPT !.session = Null, !.last = Null,
                                              !.socket = "closed", !.state = "OFFLINE"], Null))

\* Channel.teardown, lines 441-443 and 449-450: the SERVER has sent its LEAVE
TeardownServerSent(t) ==
  /\ task[t].pc = "teardown_sent"
  /\ Apply(TaskChan[t], t,
           Return([Cur(TaskChan[t], t) EXCEPT !.session = Null, !.last = Null, !.peer = Null,
                                              !.socket = "closed", !.state = "OFFLINE"], Null))

\* register() without the look-up of the topic
RegisterStartAlways(n, topic) ==
  IF n.state # "ONLINE" THEN Raise(n, "AssertionError", Nothing)
  ELSE Request(n, TOPIC_REGISTER, TopicContent(topic))

\* Channel.register, lines 452-456
RegisterStart(n, topic) ==
  IF n.state # "ONLINE" THEN Raise(n, "AssertionError", Nothing)
  ELSE IF \E i \in 1 .. Len(n.topics) : n.topics[i].topic = topic THEN Return(n, Null)
  ELSE Request(n, TOPIC_REGISTER, TopicContent(topic))

RegisterCall(t, topic) ==
  /\ CanCall(t, "register")
  /\ Apply(TaskChan[t], t, RegisterStart(Call(t, "register", topic), topic))

\* Channel.unregister, lines 463-466
UnregisterStart(n, topic) ==
  IF n.state # "ONLINE" THEN Raise(n, "AssertionError", Nothing)
  ELSE Request(n, TOPIC_DEREGISTER, TopicContent(topic))

UnregisterCall(t, topic) ==
  /\ CanCall(t, "unregister")
  /\ Apply(TaskChan[t], t, UnregisterStart(Call(t, "unregister", topic), topic))

\* Channel.publish, lines 468-474
PublishStart(n, topic) ==
  IF n.state # "ONLINE" THEN Raise(n, "AssertionError", Nothing)
  ELSE LET has == \E i \in 1 .. Len(n.outboxes) : n.outboxes[i].topic = topic
           n1 == IF has THEN n
                 ELSE [n EXCEPT !.outboxes = Append(@, [topic |-> topic, queue |-> n.queues + 1]),
                                !.queues = @ + 1] IN
       IF has \/ (\E i \in 1 .. Len(n1.topics) : n1.topics[i].topic = topic)
       THEN Return(n1, n1.outboxes[OutboxOf(n1.outboxes, topic)].queue)
       ELSE Request(n1, TOPIC_REGISTER, TopicContent(topic))

PublishCall(t, topic) ==
  /\ CanCall(t, "publish")
  /\ Apply(TaskChan[t], t, PublishStart(Call(t, "publish", topic), topic))

\* Channel.subscribe, lines 476-478: the body is "..."
SubscribeStart(n, topic) == Return(n, Null)

SubscribeCall(t, topic) ==
  /\ CanCall(t, "subscribe")
  /\ Apply(TaskChan[t], t, SubscribeStart(Call(t, "subscribe", topic), topic))

\* ------------------------------------------------------ peer environment
\* The peer, or whatever else writes to the transport, puts a frame on the
\* inbound side of c while a task of c waits for one.
\* The kinds it sends: the one the receiver waits for, ERROR, and one kind
\* the receiver does not expect.  Its JOIN and ACKNOWLEDGE carry an id and its
\* ERROR carries a text.
\* Towards two concurrent tasks the peer only acknowledges.
EnvKinds(c) ==
  IF role[c] = "SERVER" THEN {SESSION_JOIN, APPLICATION}
  ELSE IF world = "tasks" THEN {ACKNOWLEDGE}
  ELSE IF world = "closing" THEN {ACKNOWLEDGE, APPLICATION}
  ELSE {ACKNOWLEDGE, ERROR, APPLICATION}
EnvSelfIds == {204}
EnvContent(k, s) ==
  IF k \in {SESSION_JOIN, ACKNOWLEDGE} THEN IdContent(s, CHOOSE i \in EnvSelfIds : TRUE)
  ELSE IF k = ERROR THEN [NoContent EXCEPT !.error = "peer failed"]
  ELSE NoContent

\* The ids it tries.  To a channel that holds a session: the id the channel
\* expects next, the id it used last, an id past the expected one, and the
\* same with a session id that is not the channel's.  To a SERVER that waits
\* for its first frame: the id a JOIN should carry and two others.
EnvIds(c) ==
  IF last_message_id[c] = Null \/ session_id[c] = Null
  THEN {Id(0, 0), Id(0, 1), Id(1, 1)}
  ELSE IF TwoTasks
  THEN {Id(session_id[c], last_message_id[c] + d) : d \in 0 .. 1}
  ELSE LET other == IF session_id[c] = 0 THEN 1 ELSE 0 IN
       {Id(session_id[c], last_message_id[c] + d) : d \in 0 .. 2}
         \cup {Id(other, last_message_id[c] + d) : d \in 1 .. 2}

\* one frame at a time: the transport is ordered and a channel reads only
\* while a task waits, so a frame that arrives earlier changes nothing
Inject(c) ==
  /\ FacesPeer(c)
  /\ wire[c] = <<>>
  /\ \E t \in Task : TaskChan[t] = c /\ Waiting(t)
  /\ \E id \in EnvIds(c), k \in EnvKinds(c) :
       wire' = [wire EXCEPT ![c] = <<to_bytes(Message(id, k, EnvContent(k, id.session)))>>]
  /\ UNCHANGED <<chan, task, accepted, world, calls, codec, gen>>

Next ==
  \/ \E t \in Task : SetupCall(t)
  \/ \E t \in Task : SetupServerRecv(t)
  \/ \E t \in Task : SetupServerErrSent(t)
  \/ \E t \in Task : SetupServerAckSent(t)
  \/ \E t \in Task : SetupCancelled(t)
  \/ \E t \in Task : AckRecv(t)
  \/ \E t \in Task : AckViolSent(t)
  \/ \E t \in Task : AckErrSent(t)
  \/ \E t \in Task : TeardownCall(t)
  \/ \E t \in Task : TeardownServerSent(t)
  \/ \E t \in Task, topic \in Topics : RegisterCall(t, topic)
  \/ \E t \in Task, topic \in Topics : UnregisterCall(t, topic)
  \/ \E t \in Task, topic \in Topics : PublishCall(t, topic)
  \/ \E t \in Task, topic \in Topics : SubscribeCall(t, topic)
  \/ \E c \in Chan : Inject(c)

Spec == Init /\ [][Next]_vars

\* ------------------------------------------------------- the codec alone
\* ids the codec is tried on: the least, one and two digits, and 2^31 - 1
CodecIds == {0, 1, 255, 2147483647}
\* contents: None, the empty dict, and dicts from strings to strings
CodecContents ==
  {None, [k \in {} |-> ""], [topic |-> "chat"], [error |-> "", id |-> "00ff"]}
CodecMessages ==
  {Message(Id(s, o), k, c) : s \in CodecIds, o \in CodecIds, k \in MessageKinds,
                             c \in CodecContents}

\* frames that did not come from to_bytes
GoodId == to_hex(Id(1, 255))
CodecIdTexts ==
  {<<>>, SubSeq(GoodId, 1, HexWidth), SubSeq(GoodId, 1, 2 * HexWidth - 1),
   GoodId \o <<0>>, [GoodId EXCEPT ![2 * HexWidth] = 16], GoodId}
CodecKindTexts == {"HELLO", "JOIN", "ACKNOWLEDGE"}
CodecMembers(id, kind) ==
  << <<"id", id>>, <<"kind", kind>>, <<"content", JsonNull>> >>
\* the members 1..3 of q that are in keep, in their order
Keep(q, keep) ==
  (IF 1 \in keep THEN <<q[1]>> ELSE <<>>) \o (IF 2 \in keep THEN <<q[2]>> ELSE <<>>)
    \o (IF 3 \in keep THEN <<q[3]>> ELSE <<>>)
CodecFrames ==
  {Garbage, Bytes(JsonNull), Bytes(JsonNumber)}
    \cup {Bytes(JsonObject(Keep(CodecMembers(id, kind), keep))) :
             id \in CodecIdTexts, kind \in CodecKindTexts, keep \in SUBSET (1 .. 3)}

InitCodec ==
  /\ Constructed
  /\ world = "both"
  /\ gen = NoGen
  /\ codec \in {[NoCodec EXCEPT !.input = "message", !.phase = "message", !.msg = m] :
                  m \in CodecMessages}
              \cup {[NoCodec EXCEPT !.input = "frame", !.phase = "encoded", !.data = f] :
                       f \in CodecFrames}

\* m.to_bytes()
Encode ==
  /\ codec.phase = "message"
  /\ codec' = [codec EXCEPT !.phase = "encoded", !.data = to_bytes(codec.msg)]
  /\ UNCHANGED <<chan, wire, task, accepted, world, calls, gen>>

\* _Message.from_bytes(data)
Decode ==
  /\ codec.phase = "encoded"
  /\ LET e == from_bytes_error(codec.data) IN
     codec' = [codec EXCEPT !.phase = "decoded", !.exc = e,
                            !.out = IF e = "none" THEN from_bytes(codec.data) ELSE NoMessage]
  /\ UNCHANGED <<chan, wire, task, accepted, world, calls, gen>>

NextCodec == Encode \/ Decode

SpecCodec == InitCodec /\ [][NextCodec]_vars

\* ---------------------------------------------------- the IdGenerator alone
IdKinds == {"session", "topic"}
IdSpace == [session |-> SessionIdSpace, topic |-> TopicIdSpace]
UsedOf(g, kind) == IF kind = "session" THEN g.used_session_ids ELSE g.used_topic_ids

\* id in used
IsUsed(used, id) == id < used.below \/ id \in used.others
\* used.add(id)
AddUsed(used, id) == [used EXCEPT !.others = @ \cup {id}]
\* every id of 0 .. space-1 is in used
Exhausted(used, space) ==
  used.below + Cardinality({x \in used.others : x >= used.below}) = space

\* what secrets.randbelow(space) is tried with: the least and the two
\* greatest values
Draws(kind) == {0, IdSpace[kind] - 2, IdSpace[kind] - 1}

\* a generator as constructed, and one that has given out all ids but the
\* two greatest of each kind
InitIds ==
  /\ Constructed
  /\ world = "both"
  /\ codec = NoCodec
  /\ \E s \in {0, SessionIdSpace - 2}, t \in {0, TopicIdSpace - 2} :
       gen = [NoGen EXCEPT !.used_session_ids = UsedIds(s, {}),
                           !.used_topic_ids = UsedIds(t, {})]

\* generate_session_id() or generate_topic_id() is called
GenerateCall(kind) ==
  /\ gen.pc = "idle"
  /\ gen.calls < MaxGenerate
  /\ gen' = [gen EXCEPT !.pc = kind, !.calls = @ + 1]
  /\ UNCHANGED <<chan, wire, task, accepted, world, calls, codec>>

\* one turn of the loop with the membership test left out
GenerateDrawUnchecked(kind) ==
  /\ gen.pc = kind
  /\ \E id \in Draws(kind) :
       gen' = [gen EXCEPT !.pc = "idle",
                 !.used_session_ids = IF kind = "session" THEN AddUsed(@, id) ELSE @,
                 !.used_topic_ids = IF kind = "topic" THEN AddUsed(@, id) ELSE @,
                 !.returned = Append(@, [kind |-> kind, id |-> id])]
  /\ UNCHANGED <<chan, wire, task, accepted, world, calls, codec>>

\* one turn of "while True": an id is drawn; a used one is dropped and the
\* loop goes round, a new one is recorded and returned
GenerateDraw(kind) ==
  /\ gen.pc = kind
  /\ \E id \in Draws(kind) :
       IF IsUsed(UsedOf(gen, kind), id) THEN gen' = gen
       ELSE gen' = [gen EXCEPT !.pc = "idle",
                      !.used_session_ids = IF kind = "session" THEN AddUsed(@, id) ELSE @,
                      !.used_topic_ids = IF kind = "topic" THEN AddUsed(@, id) ELSE @,
                      !.returned = Append(@, [kind |-> kind, id |-> id])]
  /\ UNCHANGED <<chan, wire, task, accepted, world, calls, codec>>

NextIds ==
  \/ \E kind \in IdKinds : GenerateCall(kind)
  \/ \E kind \in IdKinds : GenerateDraw(kind)

SpecIds == InitIds /\ [][NextIds]_vars

\* ---------------------------------------------------------------- claims
LastOf(q) == q[Len(q)]
Finished(t) == task[t].pc = "idle" /\ task[t].op # "none"
ErrorsSent(t) == Cardinality({i \in 1 .. Len(task[t].sent) : task[t].sent[i].kind = ERROR})
SetupReturned(t) == Finished(t) /\ task[t].op = "setup" /\ task[t].result = "ok"
\* the last handshake frame a side sent or received: the ACKNOWLEDGE
LastHandshakeFrame(t) ==
  IF role[TaskChan[t]] = "CLIENT" THEN LastOf(task[t].got) ELSE LastOf(task[t].sent)

\* C1: when a CLIENT and a SERVER Channel are connected to each other and
\* setup() has returned on both, both are ONLINE, both hold the session id
\* the SERVER minted (the one in its ACKNOWLEDGE), and each side's
\* last_message_id is the object_id of the last handshake frame it sent or
\* received.
C1_HandshakeAgreement ==
  (world = "both" /\ \A t \in Task : SetupReturned(t)) =>
    /\ \A c \in Chan : state[c] = "ONLINE"
    /\ session_id["client"] = session_id["server"]
    /\ session_id["server"] # Null
    /\ session_id["client"] = LastOf(task["ts"].sent).id.session
    /\ LastOf(task["ts"].sent).kind = ACKNOWLEDGE
    /\ \A t \in Task : last_message_id[TaskChan[t]] = LastHandshakeFrame(t).id.object

C1_Witness == world = "both" /\ \A t \in Task : SetupReturned(t)

C3_OutOfOrderRaised ==
  \A t \in Task :
    (Finished(t) /\ task[t].exc = "OutOfOrderError") =>
      /\ task[t].result = "OutOfOrderError"
      /\ ErrorsSent(t) = 1
      /\ LastOf(task[t].sent).content.expected = {task[t].rx.before + 1}
      /\ LastOf(task[t].sent).content.got = task[t].resp.id.object

Transitions == {<<"OFFLINE", "SETUP">>, <<"SETUP", "ONLINE">>,
                <<"ONLINE", "TEARDOWN">>, <<"TEARDOWN", "OFFLINE">>}

\* C5: every channel starts OFFLINE, its state changes only along
\* OFFLINE -> SETUP -> ONLINE -> TEARDOWN -> OFFLINE, and its role never
\* changes.
C5_StateMachine ==
  /\ \A c \in Chan : state[c] = "OFFLINE"
  /\ [][\A c \in Chan :
          /\ state'[c] # state[c] => <<state[c], state'[c]>> \in Transitions
          /\ role'[c] = role[c]]_vars

C5_Witness ==
  \E t \in Task :
    /\ Finished(t) /\ task[t].op = "teardown" /\ task[t].result = "ok"
    /\ state[TaskChan[t]] = "OFFLINE"

\* C6 as stated: setup() called when not OFFLINE and teardown() called when
\* not ONLINE fail with WrongStateError without sending or receiving a frame.
C6_WrongStateError ==
  \A t \in Task :
    (Finished(t) /\ \/ task[t].op = "setup" /\ task[t].entry # "OFFLINE"
                    \/ task[t].op = "teardown" /\ task[t].entry # "ONLINE") =>
      /\ task[t].result = "WrongStateError"
      /\ task[t].sent = <<>>
      /\ task[t].got = <<>>

\* C7 as stated: register, unregister, publish and subscribe called when not
\* ONLINE fail with WrongStateError without sending a frame.
C7_TopicWrongStateError ==
  \A t \in Task :
    (Finished(t) /\ task[t].op \in {"register", "unregister", "publish", "subscribe"}
                 /\ task[t].entry # "ONLINE") =>
      /\ task[t].result = "WrongStateError"
      /\ task[t].sent = <<>>

\* C8: whenever a channel is OFFLINE, its session_id, last_message_id and
\* peer_id are null and its transport is not open.
C8_OfflineIsClean ==
  \A c \in Chan :
    state[c] = "OFFLINE" =>
      /\ session_id[c] = Null
      /\ last_message_id[c] = Null
      /\ peer_id[c] = Null
      /\ socket[c] # "open"

C8_Witness ==
  \E t \in Task :
    /\ Finished(t) /\ task[t].op = "teardown" /\ task[t].result = "ok"
    /\ state[TaskChan[t]] = "OFFLINE" /\ socket[TaskChan[t]] = "closed"

FirstFrameNotJoin(t) ==
  /\ role[TaskChan[t]] = "SERVER"
  /\ Finished(t) /\ task[t].op = "setup"
  /\ task[t].got # <<>> /\ task[t].got[1].kind # SESSION_JOIN

\* C9: when the first frame a SERVER receives in setup() is not a
\* SESSION_JOIN, it sends exactly one frame, an ERROR naming SESSION_JOIN as
\* the expected kind, setup() fails with BadPeerError, the channel is not
\* ONLINE and it holds no session_id and no last_message_id afterwards.
C9_FirstFrameNotJoin ==
  \A t \in Task :
    FirstFrameNotJoin(t) =>
      /\ task[t].result = "BadPeerError"
      /\ Len(task[t].sent) = 1
      /\ task[t].sent[1].kind = ERROR
      /\ task[t].sent[1].content.expected = {SESSION_JOIN}
      /\ state[TaskChan[t]] # "ONLINE"
      /\ session_id[TaskChan[t]] = Null
      /\ last_message_id[TaskChan[t]] = Null

C9_Witness == \E t \in Task : FirstFrameNotJoin(t)

\* C10 as stated: in a request/acknowledge exchange an ERROR reply raises
\* BadPeerError carrying the peer's text and no ERROR frame is sent; a reply
\* of another kind than ACKNOWLEDGE makes the channel send exactly one ERROR
\* frame and raise BadPeerError carrying the reply; only an ACKNOWLEDGE lets
\* the operation complete.
C10_ReplyKinds ==
  \A t \in Task :
    (Finished(t) /\ task[t].kind # 0 /\ task[t].got # <<>>) =>
      LET reply == LastOf(task[t].got) IN
      /\ reply.kind = ERROR =>
           /\ task[t].result = "BadPeerError"
           /\ task[t].carried.text = reply.content.error
           /\ ErrorsSent(t) = 0
      /\ reply.kind \notin {ACKNOWLEDGE, ERROR} =>
           /\ task[t].result = "BadPeerError"
           /\ ErrorsSent(t) = 1
           /\ task[t].carried.message = reply
      /\ task[t].result = "ok" => reply.kind = ACKNOWLEDGE

\* a finished register() that performed the wire exchange
RegisterExchange(t) == Finished(t) /\ task[t].op = "register" /\ task[t].sent # <<>>
\* the reply was an ACKNOWLEDGE that the receive accepted
AnsweredByAck(t) ==
  /\ task[t].got # <<>> /\ LastOf(task[t].got).kind = ACKNOWLEDGE
  /\ task[t].exc = "none"

\* C11 as stated: the topic is not in topics while register() waits for its
\* reply; after the exchange the topic is in topics exactly when the request
\* was answered by an ACKNOWLEDGE and the exchange did not fail; and between
\* two connected Channels the SERVER answers a TOPIC_REGISTER it receives
\* with an ACKNOWLEDGE.
C11_RegisterAcknowledged ==
  \A t \in Task :
    LET c == TaskChan[t] IN
    /\ (task[t].op = "register" /\ task[t].pc = "ack_recv") => task[t].topic \notin TopicNames(c)
    /\ RegisterExchange(t) =>
         (task[t].topic \in TopicNames(c) <=> (task[t].result = "ok" /\ AnsweredByAck(t)))
    /\ (world = "both" /\ role[c] = "SERVER" /\ Finished(t)
          /\ \E i \in 1 .. Len(task[t].got) : task[t].got[i].kind = TOPIC_REGISTER) =>
         \E i \in 1 .. Len(task[t].sent) : task[t].sent[i].kind = ACKNOWLEDGE

\* a register() call that begins while the topic is already registered
RepeatedRegister(t) ==
  /\ task[t].pc = "idle" /\ task'[t] # task[t] /\ task'[t].op = "register"
  /\ state[TaskChan[t]] = "ONLINE"
  /\ task'[t].topic \in TopicNames(TaskChan[t])

\* C12: register(t) called while ONLINE for a topic that an earlier register
\* has added sends no frame and returns at once, and leaves the registry as
\* it was: the topic keeps the queue pair the first call allocated and no
\* queue is made.  The first call sent exactly one TOPIC_REGISTER frame.
C12_RegisterIdempotent ==
  /\ topics = [c \in Chan |-> <<>>]
  /\ [][\A t \in Task :
          /\ RepeatedRegister(t) =>
               /\ task'[t].pc = "idle" /\ task'[t].result = "ok" /\ task'[t].sent = <<>>
               /\ wire' = wire
               /\ topics' = topics /\ queues' = queues /\ outboxes' = outboxes
          /\ RegisterExchange(t) =>
               Cardinality({i \in 1 .. Len(task[t].sent) :
                              task[t].sent[i].kind = TOPIC_REGISTER}) = 1]_vars

C12_Witness ==
  \E t \in Task :
    /\ Finished(t) /\ task[t].op = "register" /\ task[t].entry = "ONLINE"
    /\ task[t].sent = <<>> /\ task[t].result = "ok"
    /\ task[t].topic \in TopicNames(TaskChan[t])

\* C13 as stated: once unregister(t) has returned normally, t is not in
\* topics and no queue is bound to t any more.
C13_UnregisterDiscards ==
  \A t \in Task :
    (Finished(t) /\ task[t].op = "unregister" /\ task[t].result = "ok") =>
      /\ task[t].topic \notin TopicNames(TaskChan[t])
      /\ \A i \in 1 .. Len(outboxes[TaskChan[t]]) :
           outboxes[TaskChan[t]][i].topic # task[t].topic

\* the _topic that register() appended for topic
RegisteredTopic(c, topic) ==
  topics[c][CHOOSE i \in 1 .. Len(topics[c]) : topics[c][i].topic = topic]

\* C14 as stated: for a topic that is registered on an ONLINE channel,
\* publish(t) returns the outbox and subscribe(t) the inbox that register(t)
\* allocated for t.
C14_QueuesOfRegister ==
  \A t \in Task :
    LET c == TaskChan[t] IN
    (Finished(t) /\ task[t].entry = "ONLINE" /\ task[t].sent = <<>>
       /\ task[t].topic \in TopicNames(c)) =>
      /\ task[t].op = "publish" =>
           task[t].result = "ok" /\ task[t].ret = RegisteredTopic(c, task[t].topic).outbox
      /\ task[t].op = "subscribe" =>
           task[t].result = "ok" /\ task[t].ret = RegisteredTopic(c, task[t].topic).inbox

\* C15: a SERVER whose setup() has returned received a SESSION_JOIN and sent
\* as its last frame an ACKNOWLEDGE whose content id is the hex form of (its
\* new session_id, its self_id), and its peer_id is the object half of the id
\* in the JOIN's content; between two connected Channels, once both setup()
\* calls have returned each side's peer_id is the other side's self_id.
C15_HandshakeIds ==
  /\ \A t \in Task :
       LET c == TaskChan[t] IN
       (role[c] = "SERVER" /\ SetupReturned(t)) =>
         /\ task[t].got[1].kind = SESSION_JOIN
         /\ LastOf(task[t].sent).kind = ACKNOWLEDGE
         /\ LastOf(task[t].sent).content.id = to_hex(Id(session_id[c], self_id[c]))
         /\ Len(LastOf(task[t].sent).content.id) = 2 * HexWidth
         /\ peer_id[c] = from_hex(task[t].got[1].content.id).object
  /\ (world = "both" /\ \A t \in Task : SetupReturned(t)) =>
       \A c \in Chan : peer_id[c] = self_id[Peer(c)]

C15_Witness ==
  /\ world = "both"
  /\ SetupReturned("ts") /\ peer_id["server"] = self_id["client"]
  /\ SetupReturned("tc") /\ peer_id["client"] = self_id["server"]

\* the id text in the frame the codec holds
FrameId == json_dict(codec.data.doc)["id"]

\* C16: a message whose ids are non-negative and below 2^64, of any kind and
\* with None, an empty or a string-to-string content, comes back from
\* from_bytes(to_bytes(m)) equal in all fields, and the id in the frame has
\* exactly 32 hex digits, the first 16 encoding session_id and the last 16
\* object_id.
C16_RoundTrip ==
  /\ (codec.input = "message" /\ codec.phase \in {"encoded", "decoded"}) =>
       /\ Len(FrameId) = 32
       /\ \A i \in 1 .. Len(FrameId) : FrameId[i] \in 0 .. 15
       /\ HexValue(SubSeq(FrameId, 1, 16)) = codec.msg.id.session
       /\ HexValue(SubSeq(FrameId, 17, 32)) = codec.msg.id.object
  /\ (codec.input = "message" /\ codec.phase = "decoded") =>
       /\ codec.exc = "none"
       /\ codec.out.id = codec.msg.id
       /\ codec.out.kind = codec.msg.kind
       /\ codec.out.content = codec.msg.content
       /\ codec.out = codec.msg

C16_Witness ==
  /\ codec.input = "message" /\ codec.phase = "decoded"
  /\ codec.msg.id.session = 255 /\ codec.msg.id.object = 2147483647
  /\ codec.msg.content = None

\* what C17 calls a malformed frame
Malformed(data) ==
  \/ ~data.json
  \/ data.doc.type # "object"
  \/ LET d == json_dict(data.doc) IN
     \/ {"id", "kind", "content"} \ DOMAIN d # {}
     \/ \A k \in MessageKinds : KindName[k] # d["kind"]
     \/ Len(d["id"]) # 32
     \/ \E i \in 1 .. Len(d["id"]) : d["id"][i] \notin 0 .. 15

\* C17 as stated: from_bytes of a malformed frame ends in MessageFormatError.
C17_MessageFormatError ==
  (codec.phase = "decoded" /\ Malformed(codec.data)) => codec.exc = "MessageFormatError"

\* the ids of one kind the generator has returned
ReturnedIds(kind) ==
  {gen.returned[i].id : i \in {j \in 1 .. Len(gen.returned) : gen.returned[j].kind = kind}}

\* C18: every value generate_session_id() returned lies in 0 .. 1023, differs
\* from every session id returned before it (and from the ids that were used
\* already), and used_session_ids has grown by exactly the values returned.
C18_SessionIdsUnique ==
  /\ \A i \in 1 .. Len(gen.returned) :
       gen.returned[i].kind = "session" =>
         /\ gen.returned[i].id \in 0 .. SessionIdSpace - 1
         /\ gen.returned[i].id >= gen.used_session_ids.below
         /\ \A j \in 1 .. i - 1 :
              gen.returned[j].kind = "session" => gen.returned[j].id # gen.returned[i].id
  /\ gen.used_session_ids.others = ReturnedIds("session")

C18_Witness ==
  /\ gen.used_session_ids.below = 0
  /\ Cardinality(ReturnedIds("session")) >= 2
  /\ gen.pc = "session"

\* C19 as stated: every call of generate_session_id() and of
\* generate_topic_id() ends: a call that runs when all ids of its kind have
\* been given out has a step that ends it (a failure; no id is left to draw).
C19_CallEnds ==
  (gen.pc # "idle" /\ Exhausted(UsedOf(gen, gen.pc), IdSpace[gen.pc])) =>
    ENABLED <<\E kind \in IdKinds : GenerateDraw(kind)>>_vars

\* the tasks of channel c whose request has gone out and whose reply has
\* not been received
AwaitingReply(c) == {t \in Task : TaskChan[t] = c /\ task[t].pc = "ack_recv"}

\* C20 as stated: at any time at most one control request of a channel is
\* awaiting its reply, also when two tasks call the channel concurrently.
C20_OneOutstanding == \A c \in Chan : Cardinality(AwaitingReply(c)) <= 1

\* the reply a finished request received bears another session id than the
\* channel's or another object id than last_message_id + 1
ReplyViolates(t) ==
  /\ Finished(t) /\ task[t].got # <<>>
  /\ task[t].kind \in {SESSION_LEAVE, TOPIC_REGISTER, TOPIC_DEREGISTER}
  /\ \/ task[t].resp.id.session # task[t].rx.session
     \/ task[t].resp.id.object # task[t].rx.before + 1

\* C21 as stated: when the reply to a TOPIC_REGISTER, TOPIC_DEREGISTER or
\* SESSION_LEAVE request bears a foreign session_id or an object_id other
\* than last_message_id + 1, an ERROR frame is sent and the operation fails
\* with a BadPeerError: register does not add the topic, teardown does not
\* reach OFFLINE.
C21_ReplyChecked ==
  \A t \in Task :
    ReplyViolates(t) =>
      /\ ErrorsSent(t) >= 1
      /\ task[t].result \in {"BadPeerError", "OutOfOrderError", "UnknownSessionError"}
      /\ task[t].op = "register" => task[t].topic \notin TopicNames(TaskChan[t])
      /\ task[t].op = "teardown" => state[TaskChan[t]] # "OFFLINE"

\* the call of task t received a frame while ONLINE and accepted it
AcceptedReply(t) ==
  task[t].got # <<>> /\ task[t].rx.state = "ONLINE" /\ task[t].exc = "none"

\* C22 as stated: within one session no two frames, sent by either peer,
\* carry the same (session_id, object_id): the frame a call accepted from
\* the peer and the frames the same call sent all differ in their ids.
C22_UniqueIds ==
  \A t \in Task :
    AcceptedReply(t) =>
      \A i \in 1 .. Len(task[t].sent) : task[t].sent[i].id # LastOf(task[t].got).id

\* C23 as stated: the SESSION_JOIN a CLIENT sends carries session_id 0 and
\* object_id 0; a SERVER's setup() returns only when its first frame was such
\* a SESSION_JOIN, and a SESSION_JOIN with another id is answered with an
\* ERROR frame and makes setup() fail with BadPeerError.
C23_JoinIds ==
  \A t \in Task :
    /\ \A i \in 1 .. Len(task[t].sent) :
         task[t].sent[i].kind = SESSION_JOIN => task[t].sent[i].id = Id(0, 0)
    /\ (role[TaskChan[t]] = "SERVER" /\ Finished(t) /\ task[t].op = "setup"
          /\ task[t].got # <<>> /\ task[t].got[1].kind = SESSION_JOIN
          /\ task[t].got[1].id # Id(0, 0)) =>
         /\ task[t].result = "BadPeerError"
         /\ ErrorsSent(t) = 1
         /\ state[TaskChan[t]] # "ONLINE"

TeardownReturned(t) == Finished(t) /\ task[t].op = "teardown" /\ task[t].result = "ok"

SetupFailed(t) ==
  Finished(t) /\ task[t].op = "setup" /\ task[t].entry = "OFFLINE" /\ task[t].result # "ok"
\* a channel that is in SETUP while no task runs setup() on it
SetupAbandoned(c) ==
  /\ state[c] = "SETUP"
  /\ \A t \in Task : TaskChan[t] = c => ~(task[t].op = "setup" /\ task[t].pc # "idle")

\* C25: when setup() has failed in its handshake (BadPeerError, cancellation,
\* any other error) the channel is in SETUP with its transport open, it stays
\* so for ever (never OFFLINE, never ONLINE), and a setup() called on it
\* later fails without sending a frame.
C25_FailedSetupIsFinal ==
  /\ \A c \in Chan : state[c] = "OFFLINE"
  /\ [][\A t \in Task :
          LET c == TaskChan[t] IN
          /\ SetupFailed(t) => SetupAbandoned(c) /\ socket[c] = "open"
          /\ SetupAbandoned(c) => state'[c] = "SETUP" /\ socket'[c] = "open"
          /\ (Finished(t) /\ task[t].op = "setup" /\ task[t].entry = "SETUP") =>
               task[t].result # "ok" /\ task[t].sent = <<>> /\ task[t].got = <<>>]_vars

C25_Witness ==
  \E t \in Task :
    /\ Finished(t) /\ task[t].op = "setup" /\ task[t].entry = "SETUP"
    /\ task[t].result = "AssertionError"
    /\ SetupAbandoned(TaskChan[t])


\* the call of task t went through the request routine and has ended after a
\* reply of a kind the request does not allow (neither ACKNOWLEDGE nor ERROR)
InvalidReplyReported(t) ==
  /\ Finished(t) /\ task[t].kind # 0 /\ task[t].got # <<>>
  /\ task[t].resp.kind \notin {ACKNOWLEDGE, ERROR}

\* C26 as stated: a call that reports a bad reply to its caller ends with the
\* BadPeerError, also when the sending of the ERROR frame to the peer fails
\* (the channel has gone OFFLINE and its transport is closed): the caller
\* never gets the failure of the send in place of the BadPeerError.
C26_ErrorSurvivesSend ==
  \A t \in Task : InvalidReplyReported(t) => task[t].result = "BadPeerError"


\* the entries the registry of c holds for a topic name
EntriesOf(c, name) == {i \in 1 .. Len(topics[c]) : topics[c][i].topic = name}
\* the register calls for name on c, running or returned, that sent a
\* TOPIC_REGISTER frame
RegisterFrames(c, name) ==
  {t \in Task : /\ TaskChan[t] = c /\ task[t].op = "register" /\ task[t].topic = name
                /\ task[t].result \in {"none", "ok"}
                /\ \E i \in 1 .. Len(task[t].sent) : task[t].sent[i].kind = TOPIC_REGISTER}

\* C27 as stated: in every reachable state, with register calls for the same
\* name running concurrently on one ONLINE channel, the registry holds at
\* most one entry for a topic name and at most one of these calls has sent a
\* TOPIC_REGISTER frame for it.
C27_OneEntryPerTopic ==
  \A c \in Chan, name \in Topics :
    /\ Cardinality(EntriesOf(c, name)) <= 1
    /\ Cardinality(RegisterFrames(c, name)) <= 1


\* a CLIENT and a SERVER Channel are connected to each other and the only
\* calls made so far are setup() and after it teardown(), on either channel:
\* every frame on the transport was sent by this code through its send path
OnlySetupAndTeardown ==
  /\ world = "both"
  /\ \A t \in Task : task[t].op \in {"none", "setup", "teardown"}
  /\ \A c \in Chan : calls[c] <= 2

\* C28 as stated, for the runs without a register or unregister request:
\* when both peers run this protocol over the reliable ordered transport and
\* nothing else writes to it (handshake, then teardown), no ERROR frame is
\* sent and no OutOfOrderError, UnknownSessionError or BadPeerError is raised.
C28_FaultFreeRun ==
  OnlySetupAndTeardown =>
    \A t \in Task :
      /\ ErrorsSent(t) = 0
      /\ task[t].result \notin {"BadPeerError", "OutOfOrderError", "UnknownSessionError"}


\* teardown(), called on an ONLINE channel by task t, has ended
TeardownEnded(t) == Finished(t) /\ task[t].op = "teardown" /\ task[t].entry = "ONLINE"

\* C29 as stated, in the form a finite run decides: when a CLIENT and a
\* SERVER Channel are connected to each other, both were ONLINE and teardown()
\* has been called on each and has ended on both, both channels are OFFLINE
\* with their transports closed.  (A channel that teardown() leaves in another
\* state stays there: teardown() asserts ONLINE and setup() asserts OFFLINE.)
C29_BothReachOffline ==
  (world = "both" /\ \A t \in Task : TeardownEnded(t)) =>
    \A c \in Chan : state[c] = "OFFLINE" /\ socket[c] = "closed"


====
